---- MODULE Spec2Model ----
(***************************************************************************)
(* Cache and refresh subsystem of the NEPSE market-data backend            *)
(* (src/backend/app.py): the module-level cache dictionary, the freshness  *)
(* check is_cache_valid, the refresh pass update_cache run at startup and  *)
(* by the background scheduler, the cached read handlers, and the          *)
(* teardown hook.  Threads interleave at statement granularity: the two    *)
(* assignments of a cache write (data, then last_updated) are two steps,   *)
(* and so are the evaluation of datetime.now() and the store of its value. *)
(***************************************************************************)
EXTENDS Integers, Sequences, FiniteSets, TLC

\* ---------------------------------------------------------------- bounds
\* The wall clock advances in ticks of TickSeconds and stops at MaxClock.
MaxClock == 1
\* Total number of read requests served.
MaxRequests == 2
\* Number of records the upstream returns on a successful fetch.
MaxItems == 2
\* Total number of fetches that fail (return nothing, or raise).
MaxFailures == 1
\* Number of threads that are inside update_cache or a handler at once.
MaxActive == 2

\* One tick of the model clock, in seconds (the scheduler interval).
TickSeconds == 5 * 60

\* ------------------------------------------------------------- constants
\* Python's None, as a key, as a payload and as a timestamp
None == "None"
NoData == [ isNone |-> TRUE, items |-> << >> ]
NoTime == -1

\* A list (or dict) payload
List(s) == [ isNone |-> FALSE, items |-> s ]

\* cache = {...}: the fixed category keys, in the order of cache_operations
cache_operations ==
    << "stocks", "indices", "top_gainers", "top_losers", "sectors",
       "merolagani_latest" >>

Keys == { cache_operations[i] : i \in 1..Len(cache_operations) }

\* The categories whose handler takes a limit parameter.
Limited == { "top_gainers", "top_losers" }

\* request.args.get('limit', default=10, type=int); get_top_gainers(limit=10)
DefaultLimit == 10

\* Values of ?limit= carried by the requests of the model.
Limits == { 0, 1, DefaultLimit }

\* The categories the requests of the model ask for.  The requests of one
\* run all ask for the same category (variable asked): the handlers of
\* different categories share nothing but the scheduler.
RequestKeys == Keys

\* CACHE_TIMEOUT = int(os.getenv('CACHE_TIMEOUT', 300)): configured values
TimeoutChoices == { 300, 600 }

\* scheduler.add_job(update_cache, 'interval', minutes=5)
IntervalSeconds == 5 * 60

\* The interval, in ticks of the clock.
Interval == IntervalSeconds \div TickSeconds

\* Threads: the main thread (startup pass), the scheduler's worker thread,
\* and the request threads of the server.
Updaters == { "main", "sched" }
Requests == { "r1", "r2" }
Rank(r)  == IF r = "r1" THEN 1 ELSE 2
Actors   == Updaters \cup Requests

\* What a fetch function can do: return data, return an empty list or dict,
\* return None, return a payload with nothing recognisable in it, raise, or
\* never return (requests.get is called without a timeout).
Outcomes == { "ok", "empty", "none", "malformed", "raise", "hang" }

\* get_indices falls off its end, returning None, when both sources answer
\* with a status other than 200; the other fetch functions return [] or {}.
CanReturnNone == { "indices" }

\* get_latest_market_data returns its six-section dict whatever the page
\* held: each section is empty when the page has none of the tables.
CanBeMalformed == { "merolagani_latest" }

\* The outcomes the fetch function of category k can have.
OutcomesOf(k) ==
    { o \in Outcomes : /\ o = "none" => k \in CanReturnNone
                       /\ o = "malformed" => k \in CanBeMalformed }

\* The handlers that never use the cache.
Endpoints ==
    { "get_stock", "get_historical", "get_market_depth", "get_floorsheet",
      "get_market_status", "get_merolagani_company", "get_merolagani_news" }

\* The handlers of the single-item categories.
SingleItem == { "get_stock", "get_historical", "get_market_depth" }

\* The public methods of the two services, each with the least and the
\* greatest number of arguments it takes (self not counted).
Methods ==
    [ nepse_service |->
        [ get_all_stocks      |-> << 0, 0 >>,
          get_indices         |-> << 0, 0 >>,
          get_top_gainers     |-> << 0, 1 >>,
          get_top_losers      |-> << 0, 1 >>,
          get_sector_data     |-> << 0, 0 >>,
          get_stock           |-> << 1, 1 >>,
          get_historical_data |-> << 1, 2 >>,
          get_market_depth    |-> << 1, 1 >>,
          get_floorsheet      |-> << 0, 1 >>,
          get_market_status   |-> << 0, 0 >> ],
      merolagani_service |->
        [ get_latest_market_data |-> << 0, 0 >>,
          get_company_details    |-> << 1, 1 >>,
          get_market_news        |-> << 0, 1 >> ] ]

\* The call each uncached handler makes: service, method name, number of
\* arguments passed.
CallOf(e) ==
    CASE e = "get_stock" ->
           [ svc |-> "nepse_service", method |-> "get_stock_by_symbol",
             nargs |-> 1 ]
      [] e = "get_historical" ->
           [ svc |-> "nepse_service", method |-> "get_historical_data",
             nargs |-> 2 ]
      [] e = "get_market_depth" ->
           [ svc |-> "nepse_service", method |-> "get_market_depth",
             nargs |-> 1 ]
      [] e = "get_floorsheet" ->
           [ svc |-> "nepse_service", method |-> "get_floorsheet",
             nargs |-> 2 ]
      [] e = "get_market_status" ->
           [ svc |-> "nepse_service", method |-> "get_market_status",
             nargs |-> 0 ]
      [] e = "get_merolagani_company" ->
           [ svc |-> "merolagani_service", method |-> "get_company_details",
             nargs |-> 1 ]
      [] e = "get_merolagani_news" ->
           [ svc |-> "merolagani_service", method |-> "get_latest_news",
             nargs |-> 1 ]

\* The handler's call reaches a method: the attribute exists (else
\* AttributeError) and accepts the arguments (else TypeError).
Resolves(e) ==
    LET c == CallOf(e)
        m == Methods[c.svc]
    IN  /\ c.method \in DOMAIN m
        /\ m[c.method][1] <= c.nargs
        /\ c.nargs <= m[c.method][2]

\* The symbols of the requests of the model: a listed one, and a blank one.
Symbols == { "NABIL", " " }
DefaultSymbol == "NABIL"

\* not symbol or not symbol.strip()
Blank(sym) == sym \in { "", " " }

\* What the upstream of an uncached endpoint can do: serve data, fail so
\* that the service method returns its empty default, answer with a status
\* other than 200 on both sources (the method falls off its end), or never
\* answer.
UpstreamStates == { "ok", "empty", "none", "hang" }

\* The service methods with two sources that return None when neither
\* answers 200.
FallsOffEnd ==
    { "get_stock", "get_historical", "get_market_depth", "get_floorsheet" }

UpstreamOf(e) ==
    { o \in UpstreamStates : o = "none" => e \in FallsOffEnd }

\* The inputs of the functions examined on their own.
DaysPerWeek == 7
MinutesPerDay == 24 * 60
\* A key that is not one of the categories.
UnknownKey == "unknown"
QueryKeys == Keys \cup { UnknownKey }
\* What one source of get_indices does: 200 with indices, 200 with an empty
\* list, another status, or an exception (connection, JSON or parse error).
SourceOutcomes == { "ok", "ok_empty", "non200", "exception" }

VARIABLES
    clock,          \* datetime.now(), in ticks
    CACHE_TIMEOUT,  \* seconds
    broken,         \* categories whose fetch function raises on every call
    fnArg,          \* the input of a function examined on its own
    fnOut,          \* what that function did
    args,           \* symbol and upstream of an uncached request
    asked,          \* the category the clients ask for (None: no request yet)
    cache,          \* cache[k] = [data, last_updated]
    running,        \* scheduler.running
    nextRun,        \* next run time of the interval job, in ticks
    pc,             \* position of each thread
    key,            \* cache_key / the category of the handler
    limit,          \* the handler's limit
    data,           \* the local holding the fetch result
    ver,            \* identity of the thread's current fetch
    ts,             \* the value of datetime.now() about to be stored
    resp,           \* the response under construction / returned
    calls,          \* fetch-function calls made by the current request/pass
    now,            \* time at which the current fetch was requested
    raised,         \* categories whose fetch raised in the current pass
    tried,          \* categories whose fetch the current pass has invoked
    stored,         \* categories the current pass has written
    fetched,        \* categories whose fetch succeeded in the current pass
    prov,           \* history: request time and timestamp of the put that
                    \* wrote each entry's value; the puts completed
    npass,          \* number of scheduled passes started so far
    nreq,           \* number of requests begun so far
    nfail           \* number of failed fetches so far

vars == << clock, CACHE_TIMEOUT, broken, fnArg, fnOut, args, asked, cache,
           running, nextRun, pc, key, limit, data, ver, ts, resp, calls, now,
           raised, tried, stored, fetched, prov, npass, nreq, nfail >>

\* ------------------------------------------------------------ pure parts

\* The failures of a run: a broken fetch function raises on every call; of
\* the other fetches at most MaxFailures fail.
Cost(k, o) == IF o = "ok" \/ k \in broken THEN 0 ELSE 1
Allowed(k, o) ==
    IF k \in broken THEN o = "raise" ELSE nfail + Cost(k, o) <= MaxFailures

Min(a, b) == IF a < b THEN a ELSE b
Max(a, b) == IF a > b THEN a ELSE b

\* Python's  lst[:n]
Slice(lst, n) ==
    IF n >= 0 THEN List(SubSeq(lst.items, 1, Min(n, Len(lst.items))))
              ELSE List(SubSeq(lst.items, 1, Max(Len(lst.items) + n, 0)))

\* Python's  len(lst)
len(lst) == Len(lst.items)

\* Python truthiness of a fetch result ( if data: )
Truthy(v) == ~v.isNone /\ v.items # << >>

\* Identity of a fetch: the startup pass, the n-th scheduled pass, or the
\* n-th request.
NoVer == << "none", 0 >>

\* The payload the upstream serves to fetch n: MaxItems records.
Upstream(n) == List([ i \in 1..MaxItems |-> << n, i >> ])

\* What the fetch function of category k returns when the upstream answers:
\* get_top_gainers / get_top_losers return data[:limit], the others the
\* whole payload.
FetchResult(k, lim, n) ==
    IF k \in Limited THEN Slice(Upstream(n), lim) ELSE Upstream(n)

\* The dict get_latest_market_data builds from a page with none of the
\* expected sections: six keys, every section empty.  Record 0 stands for
\* the skeleton; a dict with keys is truthy.
Skeleton(n) == List(<< << n, 0 >> >>)

\* What fetch n of category k returns, by outcome (for the outcomes in
\* which it returns).
Returned(k, lim, n, o) ==
    CASE o = "ok"        -> FetchResult(k, lim, n)
      [] o = "malformed" -> Skeleton(n)
      [] o = "none"      -> NoData
      [] OTHER           -> List(<< >>)

\* elapsed.total_seconds()
total_seconds(d) == d * TickSeconds

\* is_cache_valid with  <=  in place of  <
is_cache_valid_le(cache_key) ==
    IF cache_key \notin DOMAIN cache
       \/ cache[cache_key].data = NoData
       \/ cache[cache_key].last_updated = NoTime
    THEN FALSE
    ELSE total_seconds(clock - cache[cache_key].last_updated) <= CACHE_TIMEOUT

is_cache_valid(cache_key) ==
    IF cache_key \notin DOMAIN cache
       \/ cache[cache_key].data = NoData
       \/ cache[cache_key].last_updated = NoTime
    THEN FALSE
    ELSE total_seconds(clock - cache[cache_key].last_updated) < CACHE_TIMEOUT

\* .isoformat() and .strftime('%Y-%m-%d %H:%M:%S') of a timestamp
isoformat(t) == [ fmt |-> "iso", t |-> t ]
strftime(t)  == [ fmt |-> "ymdhms", t |-> t ]

Pos(k) == CHOOSE i \in 1..Len(cache_operations) : cache_operations[i] = k

NoResp ==
    [ code |-> 0, ok |-> FALSE, cached |-> FALSE, data |-> NoData,
      last_updated |-> [ fmt |-> "none", t |-> NoTime ], count |-> -1 ]

\* No uncached request is in progress on the thread.
NoArgs == [ symbol |-> None, upstream |-> None ]

\* No function is being examined; it has not been applied.
NoArg ==
    [ fn |-> None, cache_key |-> None, weekday |-> 0, minute |-> 0,
      unofficial |-> None, official |-> None ]
NoOut ==
    [ returned |-> FALSE, raised |-> FALSE, bool |-> FALSE,
      payload |-> NoData ]

\* The fetch that produced a stored (non-empty) payload.
VersionOf(v) == v.items[1][1]

\* History: the timestamp stored by the put that wrote the value category k
\* holds.  The put of fetch n stores timestamp t: if the entry's value is
\* the one that put wrote, t is the timestamp that belongs to it.
PutStamp(k, n, t) ==
    IF VersionOf(cache[k].data) = n THEN t ELSE prov[k].putStamp

\* History: the put of fetch n stores timestamp t in the entry of k.  puts
\* keeps, for each put that has stored its timestamp, the fetch it belongs
\* to and that timestamp.
Stamped(k, n, t) ==
    [ prov EXCEPT ![k].putStamp = PutStamp(k, n, t),
                  ![k].puts = @ \cup { << n, t >> } ]

\* A put that rebinds the cache to a dict holding the written entry only
SetDataRebind(k, v) ==
    [ j \in { k } |-> [ data |-> v, last_updated |-> cache[k].last_updated ] ]

\* cache[k]['data'] = v
SetData(k, v) == [ cache EXCEPT ![k].data = v ]

\* A put that stamps every entry
SetStampAll(k, t) ==
    [ j \in DOMAIN cache |-> [ cache[j] EXCEPT !.last_updated = t ] ]

\* cache[k]['last_updated'] = t
SetStamp(k, t) == [ cache EXCEPT ![k].last_updated = t ]

\* ------------------------------------------------------------------ Init

\* The state after construction, where the fetch functions of the
\* categories in b raise on every call and f failures have been spent.
Start(b, f) ==
    /\ clock = 0
    /\ CACHE_TIMEOUT \in TimeoutChoices
    /\ broken = b
    /\ fnArg = NoArg
    /\ fnOut = NoOut
    /\ args = [ r \in Requests |-> NoArgs ]
    /\ asked = None
    /\ cache = [ k \in Keys |-> [ data |-> NoData, last_updated |-> NoTime ] ]
    /\ running = TRUE
    /\ nextRun = Interval
    /\ pc = [ a \in Actors |-> IF a = "main" THEN "startup" ELSE "idle" ]
    /\ key = [ a \in Actors |-> None ]
    /\ limit = [ a \in Actors |-> DefaultLimit ]
    /\ data = [ a \in Actors |-> NoData ]
    /\ ver = [ a \in Actors |-> NoVer ]
    /\ ts = [ a \in Actors |-> NoTime ]
    /\ resp = [ r \in Requests |-> NoResp ]
    /\ calls = [ a \in Actors |-> 0 ]
    /\ now = [ a \in Actors |-> NoTime ]
    /\ raised = [ u \in Updaters |-> {} ]
    /\ tried = [ u \in Updaters |-> {} ]
    /\ stored = [ u \in Updaters |-> {} ]
    /\ fetched = [ u \in Updaters |-> {} ]
    /\ prov = [ k \in Keys |->
                [ putStamp |-> NoTime, putNow |-> NoTime, puts |-> {} ] ]
    /\ npass = 0
    /\ nreq = 0
    /\ nfail = f

\* No fetch function is broken for good; fetches fail now and then.
Init == Start({}, 0)

\* Every fetch of the startup pass and of a scheduled pass may fail: the
\* failures allowed cover all the fetches of two passes.
InitFlaky == Start({}, MaxFailures - 2 * Len(cache_operations))

\* The fetch function of one category raises on every call; the other
\* fetches succeed.
InitBroken == \E k \in Keys : Start({ k }, MaxFailures)


\* Groups of variables, for the frame conditions.
passVars == << raised, tried, stored, fetched >>
schedVars == << running, nextRun >>
counters == << npass, nreq >>
probe == << fnArg, fnOut >>

\* The threads that are inside update_cache or a handler.
Active == { a \in Actors : pc[a] \notin { "startup", "serving", "idle" } }

\* -------------------------------------------------------- the wall clock

\* Time passes.  The startup pass is taken to complete within the first
\* tick: the clock starts to advance when the server is serving.
Tick ==
    /\ pc["main"] = "serving"
    /\ clock < MaxClock
    /\ clock' = clock + 1
    /\ UNCHANGED << CACHE_TIMEOUT, broken, probe, args, asked, cache,
                    schedVars, pc, key, limit, data, ver, ts, resp, calls,
                    now, passVars, prov, counters, nfail >>

\* ------------------------------------------------- update_cache (a pass)

\* The locals of a pass about to run its first iteration.
PassReset(u) ==
    /\ key' = [ key EXCEPT ![u] = cache_operations[1] ]
    /\ now' = [ now EXCEPT ![u] = clock ]
    /\ calls' = [ calls EXCEPT ![u] = 0 ]
    /\ raised' = [ raised EXCEPT ![u] = {} ]
    /\ tried' = [ tried EXCEPT ![u] = {} ]
    /\ stored' = [ stored EXCEPT ![u] = {} ]
    /\ fetched' = [ fetched EXCEPT ![u] = {} ]

\* update_cache() at import time, after scheduler.start()
Startup ==
    /\ pc["main"] = "startup"
    /\ pc' = [ pc EXCEPT !["main"] = "fetch" ]
    /\ ver' = [ ver EXCEPT !["main"] = << "main", 1 >> ]
    /\ PassReset("main")
    /\ UNCHANGED << clock, CACHE_TIMEOUT, broken, probe, args, asked, cache,
                    schedVars, limit, data, ts, resp, prov, counters, nfail >>

\* The interval trigger fires: the job runs on the scheduler's worker
\* unless the previous run is still executing (max_instances = 1).
TimerFire ==
    /\ running
    /\ clock >= nextRun
    /\ nextRun' = nextRun + Interval
    /\ IF pc["sched"] = "idle"
       THEN /\ Cardinality(Active) < MaxActive
            /\ pc' = [ pc EXCEPT !["sched"] = "fetch" ]
            /\ npass' = npass + 1
            /\ ver' = [ ver EXCEPT !["sched"] = << "sched", npass + 1 >> ]
            /\ PassReset("sched")
       ELSE UNCHANGED << pc, npass, ver, key, calls, now, passVars >>
    /\ UNCHANGED << clock, CACHE_TIMEOUT, broken, probe, args, asked, cache,
                    running, limit, data, ts, resp, prov, nreq, nfail >>

\* A loop that skips the category after k
AfterKeySkip(u, k) ==
    IF Pos(k) + 1 < Len(cache_operations)
    THEN /\ pc' = [ pc EXCEPT ![u] = "fetch" ]
         /\ key' = [ key EXCEPT ![u] = cache_operations[Pos(k) + 2] ]
         /\ now' = [ now EXCEPT ![u] = clock ]
    ELSE /\ pc' = [ pc EXCEPT ![u] = "pass_end" ]
         /\ now' = [ now EXCEPT ![u] = NoTime ]
         /\ UNCHANGED key

\* for cache_key, fetch_function in cache_operations: the next iteration,
\* or the end of the loop
AfterKey(u, k) ==
    IF Pos(k) < Len(cache_operations)
    THEN /\ pc' = [ pc EXCEPT ![u] = "fetch" ]
         /\ key' = [ key EXCEPT ![u] = cache_operations[Pos(k) + 1] ]
         /\ now' = [ now EXCEPT ![u] = clock ]
    ELSE /\ pc' = [ pc EXCEPT ![u] = "pass_end" ]
         /\ now' = [ now EXCEPT ![u] = NoTime ]
         /\ UNCHANGED key

\* except Exception as e: ...; break
OnRaiseBreak(u, k) ==
    /\ pc' = [ pc EXCEPT ![u] = "pass_end" ]
    /\ now' = [ now EXCEPT ![u] = NoTime ]
    /\ UNCHANGED key

\* update_cache with no try/except in the loop: the exception leaves it
OnRaiseEscape(u, k) ==
    /\ pc' = [ pc EXCEPT ![u] = "crashed" ]
    /\ UNCHANGED << key, now >>

\* except Exception as e: ...; continue
OnRaise(u, k) == AfterKey(u, k)

\* update_cache without the  if data:  test
PassStoresAlways(v) == TRUE

\* if data:
PassStores(v) == Truthy(v)

\* data = fetch_function()   -- called with no argument: the default limit
\* if data: cache[cache_key]['data'] = data
\* The call, its return and the first assignment of a successful result are
\* one step: until that assignment nothing the call does is visible to the
\* other threads.
PassFetch(u, o) ==
    /\ pc[u] = "fetch"
    /\ o \in OutcomesOf(key[u])
    /\ Allowed(key[u], o)
    /\ nfail' = nfail + Cost(key[u], o)
    /\ calls' = [ calls EXCEPT ![u] = @ + 1 ]
    /\ tried' = [ tried EXCEPT ![u] = @ \cup { key[u] } ]
    /\ LET k == key[u]
           v == Returned(k, DefaultLimit, ver[u], o)
       IN  IF o = "hang"
           THEN /\ pc' = [ pc EXCEPT ![u] = "blocked" ]
                /\ UNCHANGED << cache, prov, data, fetched, key, now,
                                raised >>
           ELSE IF o = "raise"
           THEN /\ raised' = [ raised EXCEPT ![u] = @ \cup { k } ]
                /\ OnRaise(u, k)
                /\ UNCHANGED << cache, prov, data, fetched >>
           ELSE IF PassStores(v)
           THEN /\ data' = [ data EXCEPT ![u] = v ]
                /\ fetched' = [ fetched EXCEPT ![u] = @ \cup { k } ]
                /\ cache' = SetData(k, v)
                /\ prov' = [ prov EXCEPT ![k].putNow = now[u] ]
                /\ pc' = [ pc EXCEPT ![u] = "w_now" ]
                /\ UNCHANGED << key, now, raised >>
           ELSE /\ AfterKey(u, k)
                /\ UNCHANGED << cache, prov, data, raised, fetched >>
    /\ UNCHANGED << clock, CACHE_TIMEOUT, broken, probe, args, asked,
                    schedVars, limit, ver, ts, resp, stored, counters >>

\* datetime.now()   -- the right-hand side of the second assignment
PassNow(u) ==
    /\ pc[u] = "w_now"
    /\ ts' = [ ts EXCEPT ![u] = clock ]
    /\ pc' = [ pc EXCEPT ![u] = "w_stamp" ]
    /\ UNCHANGED << clock, CACHE_TIMEOUT, broken, probe, args, asked, cache,
                    schedVars, key, limit, data, ver, resp, calls, now,
                    passVars, prov, counters, nfail >>

\* cache[cache_key]['last_updated'] = <that value>
PassStoreStamp(u) ==
    /\ pc[u] = "w_stamp"
    /\ cache' = SetStamp(key[u], ts[u])
    /\ prov' = Stamped(key[u], ver[u], ts[u])
    /\ stored' = [ stored EXCEPT ![u] = @ \cup { key[u] } ]
    /\ data' = [ data EXCEPT ![u] = NoData ]
    /\ ts' = [ ts EXCEPT ![u] = NoTime ]
    /\ AfterKey(u, key[u])
    /\ UNCHANGED << clock, CACHE_TIMEOUT, broken, probe, args, asked,
                    schedVars, limit, ver, resp, calls, raised, tried,
                    fetched, counters, nfail >>

\* logger.info("Cache update process completed"); update_cache returns
PassEnd(u) ==
    /\ pc[u] = "pass_end"
    /\ pc' = [ pc EXCEPT ![u] = IF u = "main" THEN "serving" ELSE "idle" ]
    /\ ver' = [ ver EXCEPT ![u] = NoVer ]
    /\ key' = [ key EXCEPT ![u] = None ]
    /\ calls' = [ calls EXCEPT ![u] = 0 ]
    /\ raised' = [ raised EXCEPT ![u] = {} ]
    /\ tried' = [ tried EXCEPT ![u] = {} ]
    /\ stored' = [ stored EXCEPT ![u] = {} ]
    /\ fetched' = [ fetched EXCEPT ![u] = {} ]
    /\ UNCHANGED << clock, CACHE_TIMEOUT, broken, probe, args, asked, cache,
                    schedVars, limit, data, ts, resp, now, prov, counters,
                    nfail >>

PassStep == \E u \in Updaters :
    \/ \E o \in Outcomes : PassFetch(u, o)
    \/ PassNow(u)
    \/ PassStoreStamp(u)
    \/ PassEnd(u)

\* ------------------------------------------------- the cached handlers
\* get_stocks, get_indices, get_top_gainers, get_top_losers, get_sectors
\* and get_merolagani_latest, by the category k they serve.

\* The success envelope's timestamp format: isoformat() in get_stocks,
\* strftime('%Y-%m-%d %H:%M:%S') in the others.
Format(k, t) == IF k = "stocks" THEN isoformat(t) ELSE strftime(t)

\* jsonify({... 'cached': c, ...})
Success(k, d, c, lu) ==
    [ code |-> 200, ok |-> TRUE, cached |-> c, data |-> d,
      last_updated |-> lu, count |-> IF k = "stocks" THEN len(d) ELSE -1 ]

\* The error responses: 404 'No stocks data available', 500 from
\* api_error_handler or from the handler's own except clause.
Failure(c) ==
    [ code |-> c, ok |-> FALSE, cached |-> FALSE, data |-> NoData,
      last_updated |-> strftime(NoTime), count |-> -1 ]

\* The cached branch without the  [:limit]
CachedDataUnsliced(k, lim) == cache[k].data

\* The list the cached branch returns: cache[k]['data'][:limit] for the
\* limited categories, cache[k]['data'] for the others.
CachedData(k, lim) ==
    IF k \in Limited THEN Slice(cache[k].data, lim) ELSE cache[k].data

\* A request for category k arrives (on the first free worker thread) and
\* its handler evaluates  if is_cache_valid(k):
Check(r, k, lim) ==
    /\ pc["main"] = "serving"
    /\ pc[r] = "idle"
    /\ \A q \in Requests : pc[q] = "idle" => Rank(r) <= Rank(q)
    /\ nreq < MaxRequests
    /\ Cardinality(Active) < MaxActive
    /\ asked \in { None, k }
    /\ asked' = k
    /\ k \notin Limited => lim = DefaultLimit
    /\ nreq' = nreq + 1
    /\ key' = [ key EXCEPT ![r] = k ]
    /\ limit' = [ limit EXCEPT ![r] = lim ]
    /\ ver' = [ ver EXCEPT ![r] = << "req", nreq + 1 >> ]
    /\ now' = [ now EXCEPT ![r] = clock ]
    /\ calls' = [ calls EXCEPT ![r] = 0 ]
    /\ pc' = [ pc EXCEPT ![r] = IF is_cache_valid(k) THEN "hit_data"
                                                     ELSE "fetch" ]
    /\ UNCHANGED << clock, CACHE_TIMEOUT, broken, probe, args, cache,
                    schedVars, data, ts, resp, passVars, prov, npass, nfail >>

\* 'data': cache[k]['data']   (or  cache[k]['data'][:limit])
HitData(r) ==
    /\ pc[r] = "hit_data"
    /\ data' = [ data EXCEPT ![r] = CachedData(key[r], limit[r]) ]
    /\ pc' = [ pc EXCEPT ![r] = "hit_stamp" ]
    /\ UNCHANGED << clock, CACHE_TIMEOUT, broken, probe, args, asked, cache,
                    schedVars, key, limit, ver, ts, resp, calls, now,
                    passVars, prov, counters, nfail >>

\* 'last_updated': cache[k]['last_updated'].<format>
HitStamp(r) ==
    /\ pc[r] = "hit_stamp"
    /\ LET k == key[r]
           lu == Format(k, cache[k].last_updated)
       IN  IF k = "stocks"
           THEN /\ ts' = [ ts EXCEPT ![r] = cache[k].last_updated ]
                /\ pc' = [ pc EXCEPT ![r] = "hit_count" ]
                /\ UNCHANGED resp
           ELSE /\ resp' = [ resp EXCEPT ![r] = Success(k, data[r], TRUE, lu) ]
                /\ pc' = [ pc EXCEPT ![r] = "teardown" ]
                /\ UNCHANGED ts
    /\ UNCHANGED << clock, CACHE_TIMEOUT, broken, probe, args, asked, cache,
                    schedVars, key, limit, data, ver, calls, now, passVars,
                    prov, counters, nfail >>

\* 'count': len(cache['stocks']['data'])
HitCount(r) ==
    /\ pc[r] = "hit_count"
    /\ resp' = [ resp EXCEPT ![r] =
                   [ Success(key[r], data[r], TRUE, Format(key[r], ts[r]))
                       EXCEPT !.count = len(cache[key[r]].data) ] ]
    /\ ts' = [ ts EXCEPT ![r] = NoTime ]
    /\ pc' = [ pc EXCEPT ![r] = "teardown" ]
    /\ UNCHANGED << clock, CACHE_TIMEOUT, broken, probe, args, asked, cache,
                    schedVars, key, limit, data, ver, calls, now, passVars,
                    prov, counters, nfail >>

\* A handler that never writes the cache
HandlerStoresNever(v) == FALSE

\* The condition under which a handler stores the result:
\* if not stocks: return 404   /   if indices: ...
HandlerStores(v) == Truthy(v)

\* A handler whose except clause answers like the empty-result path
OnFetchErrorAsEmpty(r) ==
    /\ resp' = [ resp EXCEPT ![r] =
                   Success(key[r], List(<< >>), FALSE, Format(key[r], clock)) ]
    /\ pc' = [ pc EXCEPT ![r] = "teardown" ]

\* A handler with no try/except around the fetch: the exception leaves it
OnFetchErrorEscape(r) ==
    /\ pc' = [ pc EXCEPT ![r] = "crashed" ]
    /\ UNCHANGED resp

\* except Exception as e: return jsonify({'success': False, ...}), 500
\* (in get_stocks: the except clause of api_error_handler)
OnFetchError(r) ==
    /\ resp' = [ resp EXCEPT ![r] = Failure(500) ]
    /\ pc' = [ pc EXCEPT ![r] = "teardown" ]

\* stocks = nepse_service.get_all_stocks() / top_gainers =
\* nepse_service.get_top_gainers(limit) / ... and, for a result the handler
\* keeps,  cache[k]['data'] = <result>.  One step, as in PassFetch.
Fetch(r, o) ==
    /\ pc[r] = "fetch"
    /\ o \in OutcomesOf(key[r])
    /\ Allowed(key[r], o)
    /\ nfail' = nfail + Cost(key[r], o)
    /\ calls' = [ calls EXCEPT ![r] = @ + 1 ]
    /\ LET k == key[r]
           v == Returned(k, limit[r], ver[r], o)
       IN  IF o = "hang"
           THEN /\ pc' = [ pc EXCEPT ![r] = "blocked" ]
                /\ UNCHANGED << cache, prov, data, resp >>
           ELSE IF o = "raise"
           THEN /\ OnFetchError(r)
                /\ UNCHANGED << cache, prov, data >>
           ELSE IF HandlerStores(v)
           THEN /\ data' = [ data EXCEPT ![r] = v ]
                /\ cache' = SetData(k, v)
                /\ prov' = [ prov EXCEPT ![k].putNow = now[r] ]
                /\ pc' = [ pc EXCEPT ![r] = "w_now" ]
                /\ UNCHANGED resp
           ELSE IF k = "stocks"
           THEN /\ resp' = [ resp EXCEPT ![r] = Failure(404) ]
                /\ pc' = [ pc EXCEPT ![r] = "teardown" ]
                /\ UNCHANGED << cache, prov, data >>
           ELSE /\ data' = [ data EXCEPT ![r] = v ]
                /\ pc' = [ pc EXCEPT ![r] = "respond" ]
                /\ UNCHANGED << cache, prov, resp >>
    /\ UNCHANGED << clock, CACHE_TIMEOUT, broken, probe, args, asked,
                    schedVars, key, limit, ver, ts, now, passVars, counters >>

\* datetime.now()   -- the right-hand side of the second assignment
EvalNow(r) ==
    /\ pc[r] = "w_now"
    /\ ts' = [ ts EXCEPT ![r] = clock ]
    /\ pc' = [ pc EXCEPT ![r] = "w_stamp" ]
    /\ UNCHANGED << clock, CACHE_TIMEOUT, broken, probe, args, asked, cache,
                    schedVars, key, limit, data, ver, resp, calls, now,
                    passVars, prov, counters, nfail >>

\* cache[k]['last_updated'] = <that value>
StoreStamp(r) ==
    /\ pc[r] = "w_stamp"
    /\ cache' = SetStamp(key[r], ts[r])
    /\ prov' = Stamped(key[r], ver[r], ts[r])
    /\ pc' = [ pc EXCEPT ![r] = "respond" ]
    /\ UNCHANGED << clock, CACHE_TIMEOUT, broken, probe, args, asked,
                    schedVars, key, limit, data, ver, ts, resp, calls, now,
                    passVars, counters, nfail >>

\* The timestamp of the cached:false envelope:
\* cache['stocks']['last_updated'] in get_stocks, datetime.now() elsewhere.
MissStamp(k) == IF k = "stocks" THEN cache[k].last_updated ELSE clock

\* The payload of the cached:false envelope: stocks / top_gainers[:limit]
MissData(k, v, lim) == IF k \in Limited THEN Slice(v, lim) ELSE v

\* return jsonify({... 'cached': False, ...})
Respond(r) ==
    /\ pc[r] = "respond"
    /\ resp' = [ resp EXCEPT ![r] =
                   Success(key[r], MissData(key[r], data[r], limit[r]), FALSE,
                           Format(key[r], MissStamp(key[r]))) ]
    /\ pc' = [ pc EXCEPT ![r] = "teardown" ]
    /\ UNCHANGED << clock, CACHE_TIMEOUT, broken, probe, args, asked, cache,
                    schedVars, key, limit, data, ver, ts, calls, now,
                    passVars, prov, counters, nfail >>

\* @app.teardown_appcontext shutdown(): runs when the request's application
\* context is popped, that is at the end of every request:
\* if scheduler.running: scheduler.shutdown().  Then the worker thread is
\* free again.  A pass the scheduler's worker is executing runs to its end.
shutdown(r) ==
    /\ pc[r] = "teardown"
    /\ running' = IF running THEN FALSE ELSE running
    /\ pc' = [ pc EXCEPT ![r] = "idle" ]
    /\ key' = [ key EXCEPT ![r] = None ]
    /\ limit' = [ limit EXCEPT ![r] = DefaultLimit ]
    /\ data' = [ data EXCEPT ![r] = NoData ]
    /\ ver' = [ ver EXCEPT ![r] = NoVer ]
    /\ ts' = [ ts EXCEPT ![r] = NoTime ]
    /\ now' = [ now EXCEPT ![r] = NoTime ]
    /\ calls' = [ calls EXCEPT ![r] = 0 ]
    /\ resp' = [ resp EXCEPT ![r] = NoResp ]
    /\ args' = [ args EXCEPT ![r] = NoArgs ]
    /\ UNCHANGED << clock, CACHE_TIMEOUT, broken, probe, asked, cache,
                    nextRun, passVars, prov, counters, nfail >>

\* ------------------------------------------------ the uncached endpoints

\* What the service method of endpoint e returns to request n, by what the
\* upstream does: the data; None when the method falls off its end; its
\* empty default otherwise.  get_market_status answers from the clock when
\* both sources fail (record 0 stands for that answer).
ServiceReturn(e, n, o) ==
    IF o = "ok" THEN List(<< << n, 1 >> >>)
    ELSE IF e = "get_market_status" THEN List(<< << n, 0 >> >>)
    ELSE IF o = "none" THEN NoData
    ELSE List(<< >>)

\* The handler reaches its call of the service: get_stock returns 400 for a
\* blank symbol before it.
ReachesCall(e, sym) == ~(e = "get_stock" /\ Blank(sym))

\* The response of the uncached handler e, v being what its call returned
\* when the call resolves: 400 for a blank symbol, 500 when the call raises
\* (api_error_handler, or the handler's own except clause), 404 from
\* get_stock for a falsy result, else the success envelope.
Handle(e, sym, v) ==
    IF ~ReachesCall(e, sym) THEN Failure(400)
    ELSE IF ~Resolves(e) THEN Failure(500)
    ELSE IF e = "get_stock" /\ ~Truthy(v) THEN Failure(404)
    ELSE Success(e, v, FALSE, NoResp.last_updated)

\* A request for the uncached endpoint e arrives and its handler runs: it
\* reads and writes nothing that is shared, so it is one step up to its
\* return (or up to the call that never returns).
Uncached(r, e, sym, o) ==
    /\ pc["main"] = "serving"
    /\ pc[r] = "idle"
    /\ \A q \in Requests : pc[q] = "idle" => Rank(r) <= Rank(q)
    /\ nreq < MaxRequests
    /\ Cardinality(Active) < MaxActive
    /\ asked \in { None, e }
    /\ asked' = e
    /\ o \in UpstreamOf(e)
    /\ e # "get_stock" => sym = DefaultSymbol
    /\ nreq' = nreq + 1
    /\ key' = [ key EXCEPT ![r] = e ]
    /\ args' = [ args EXCEPT ![r] = [ symbol |-> sym, upstream |-> o ] ]
    /\ ver' = [ ver EXCEPT ![r] = << "req", nreq + 1 >> ]
    /\ LET called == ReachesCall(e, sym) /\ Resolves(e)
           v == ServiceReturn(e, << "req", nreq + 1 >>, o)
       IN  /\ called => Allowed(e, o)
           /\ nfail' = IF called THEN nfail + Cost(e, o) ELSE nfail
           /\ calls' = [ calls EXCEPT ![r] = IF called THEN 1 ELSE 0 ]
           /\ IF called /\ o = "hang"
              THEN /\ pc' = [ pc EXCEPT ![r] = "blocked" ]
                   /\ UNCHANGED << data, resp >>
              ELSE /\ data' = [ data EXCEPT ![r] =
                                   IF called THEN v ELSE NoData ]
                   /\ resp' = [ resp EXCEPT ![r] = Handle(e, sym, v) ]
                   /\ pc' = [ pc EXCEPT ![r] = "teardown" ]
    /\ UNCHANGED << clock, CACHE_TIMEOUT, broken, probe, cache, schedVars,
                    limit, ts, now, passVars, prov, npass >>

UncachedStep == \E r \in Requests :
    \/ \E e \in Endpoints, sym \in Symbols, o \in UpstreamStates :
          Uncached(r, e, sym, o)
    \/ shutdown(r)

\* ---------------------------------------- functions examined on their own

\* utils.is_market_open, of the weekday (Python's: 0 is Monday) and the
\* minute of the day of Nepal time.
is_market_open(day_of_week, current_time) ==
    LET market_open == 11 * 60
        market_close == 15 * 60
        nepal_day == (day_of_week + 1) % 7
        is_weekday == nepal_day \in { 0, 1, 2, 3, 4 }
        is_during_trading_hours ==
            current_time >= market_open /\ current_time < market_close
    IN  is_weekday /\ is_during_trading_hours

\* 'isOpen' of the time-based answer of NepseService.get_market_status.
status_fallback_isOpen(day_of_week, current_time) ==
    LET market_open == 11 * 60
        market_close == 15 * 60
        is_weekday == day_of_week \in { 0, 1, 2, 3, 4 }
        is_during_trading_hours ==
            current_time >= market_open /\ current_time < market_close
    IN  is_weekday /\ is_during_trading_hours

\* _parse_index_data of what a source answered with status 200.
parse_index_data(src) ==
    IF src = "ok" THEN Upstream(<< "indices", 1 >>) ELSE List(<< >>)

\* NepseService.get_indices, by what its two sources do.  The result of the
\* unofficial source is returned when it answers 200; its exception is
\* caught and printed.  Then the official source: its result when it
\* answers 200, [] when it raises, and nothing (None) after another status.
get_indices(unofficial, official) ==
    IF unofficial \in { "ok", "ok_empty" } THEN parse_index_data(unofficial)
    ELSE IF official \in { "ok", "ok_empty" }
    THEN parse_index_data(official)
    ELSE IF official = "exception" THEN List(<< >>)
    ELSE NoData

\* The inputs: a key for is_cache_valid, a weekday and a minute for the two
\* market-hours functions, the outcomes of the two sources for get_indices.
FnInputs ==
    { [ NoArg EXCEPT !.fn = "is_cache_valid", !.cache_key = k ] :
        k \in QueryKeys }
    \cup { [ NoArg EXCEPT !.fn = "market_hours", !.weekday = d, !.minute = m ]
           : d \in 0..(DaysPerWeek - 1), m \in 0..(MinutesPerDay - 1) }
    \cup { [ NoArg EXCEPT !.fn = "get_indices", !.unofficial = a,
                          !.official = b ] :
           a \in SourceOutcomes, b \in SourceOutcomes }

\* The cache as a startup pass with no failure leaves it.
AfterStartup(k) ==
    [ data |-> FetchResult(k, DefaultLimit, << "main", 1 >>),
      last_updated |-> 0 ]

\* The function is applied in a state of the program: just constructed, or
\* serving after a startup pass without failure; for is_cache_valid, which
\* reads the cache and the clock, both are taken, at each time.
FnInit ==
    /\ fnArg \in FnInputs
    /\ fnOut = NoOut
    /\ \E filled \in BOOLEAN :
        /\ ~filled => clock = 0
        /\ filled /\ fnArg.fn # "is_cache_valid" => clock = 0
        /\ clock \in 0..MaxClock
        /\ cache = [ k \in Keys |->
                       IF filled THEN AfterStartup(k)
                       ELSE [ data |-> NoData, last_updated |-> NoTime ] ]
        /\ prov = [ k \in Keys |->
                      IF filled
                      THEN [ putStamp |-> 0, putNow |-> 0,
                             puts |-> { << << "main", 1 >>, 0 >> } ]
                      ELSE [ putStamp |-> NoTime, putNow |-> NoTime,
                             puts |-> {} ] ]
        /\ pc = [ a \in Actors |->
                    IF a # "main" THEN "idle"
                    ELSE IF filled THEN "serving" ELSE "startup" ]
    /\ CACHE_TIMEOUT \in TimeoutChoices
    /\ broken = {}
    /\ args = [ r \in Requests |-> NoArgs ]
    /\ asked = None
    /\ running = TRUE
    /\ nextRun = Interval
    /\ key = [ a \in Actors |-> None ]
    /\ limit = [ a \in Actors |-> DefaultLimit ]
    /\ data = [ a \in Actors |-> NoData ]
    /\ ver = [ a \in Actors |-> NoVer ]
    /\ ts = [ a \in Actors |-> NoTime ]
    /\ resp = [ r \in Requests |-> NoResp ]
    /\ calls = [ a \in Actors |-> 0 ]
    /\ now = [ a \in Actors |-> NoTime ]
    /\ raised = [ u \in Updaters |-> {} ]
    /\ tried = [ u \in Updaters |-> {} ]
    /\ stored = [ u \in Updaters |-> {} ]
    /\ fetched = [ u \in Updaters |-> {} ]
    /\ npass = 0
    /\ nreq = 0
    /\ nfail = 0

progVars ==
    << clock, CACHE_TIMEOUT, broken, args, asked, cache, schedVars, pc, key,
       limit, data, ver, ts, resp, calls, now, passVars, prov, counters,
       nfail >>

\* is_cache_valid(cache_key) is called and returns.
ApplyIsCacheValid ==
    /\ fnArg.fn = "is_cache_valid"
    /\ ~fnOut.returned
    /\ fnOut' = [ NoOut EXCEPT !.returned = TRUE,
                               !.bool = is_cache_valid(fnArg.cache_key) ]
    /\ UNCHANGED << fnArg, progVars >>

\* get_market_status answers from the clock.
ApplyMarketStatus ==
    /\ fnArg.fn = "market_hours"
    /\ ~fnOut.returned
    /\ fnOut' = [ NoOut EXCEPT
                    !.returned = TRUE,
                    !.bool = status_fallback_isOpen(fnArg.weekday,
                                                    fnArg.minute) ]
    /\ UNCHANGED << fnArg, progVars >>

\* nepse_service.get_indices() is called and returns.
ApplyGetIndices ==
    /\ fnArg.fn = "get_indices"
    /\ ~fnOut.returned
    /\ fnOut' = [ NoOut EXCEPT
                    !.returned = TRUE,
                    !.payload = get_indices(fnArg.unofficial,
                                            fnArg.official) ]
    /\ UNCHANGED << fnArg, progVars >>

FnNext == ApplyIsCacheValid \/ ApplyMarketStatus \/ ApplyGetIndices

RequestStep == \E r \in Requests :
    \/ \E k \in RequestKeys, lim \in Limits : Check(r, k, lim)
    \/ HitData(r)
    \/ HitStamp(r)
    \/ HitCount(r)
    \/ \E o \in Outcomes : Fetch(r, o)
    \/ EvalNow(r)
    \/ StoreStamp(r)
    \/ Respond(r)
    \/ shutdown(r)

Next == Tick \/ Startup \/ TimerFire \/ PassStep \/ RequestStep

Spec == Init /\ [][Next]_vars

\* The refresh passes alone (no read traffic), any fetch of which may fail.
PassNext == Tick \/ Startup \/ TimerFire \/ PassStep

PassSpec == InitFlaky /\ [][PassNext]_vars

\* The same program with one fetch function that raises on every call.
BrokenSpec == InitBroken /\ [][Next]_vars

\* The threads that run update_cache are scheduled by the operating system:
\* a pass that can take a step eventually takes one.
FairSpec == Spec /\ WF_vars(PassStep)

\* The uncached endpoints, beside the refresh passes.
ApiNext == Tick \/ Startup \/ TimerFire \/ PassStep \/ UncachedStep

ApiSpec == Init /\ [][ApiNext]_vars

\* The functions examined on their own, over all their inputs.
FnSpec == FnInit /\ [][FnNext]_vars

\* ==================================================================
\* Properties
\* ==================================================================

\* An entry is populated and fresh (spec: fetchedAt present and
\* now - fetchedAt < ttl).
Fresh(k) ==
    /\ cache[k].data # NoData
    /\ cache[k].last_updated # NoTime
    /\ (clock - cache[k].last_updated) * TickSeconds < CACHE_TIMEOUT

\* A put on category k is in progress: its data is written, its timestamp
\* is not yet.
Writing(k) == \E a \in Actors : key[a] = k /\ pc[a] \in { "w_now", "w_stamp" }

\* C1: in every state a request thread can observe (the server is serving),
\* a category's value is present if and only if its fetchedAt is present.
C1_SetTogether ==
    pc["main"] = "serving" =>
        \A k \in Keys :
            (cache[k].data = NoData) <=> (cache[k].last_updated = NoTime)

\* C2: once the puts on a category have all finished, the entry's fetchedAt
\* is the timestamp stored by the put that wrote the entry's value: the pair
\* is the pair of one single put.
C2_SinglePut ==
    \A k \in Keys :
        ~Writing(k) =>
            \/ cache[k].data = NoData /\ cache[k].last_updated = NoTime
            \/ /\ cache[k].data # NoData
               /\ cache[k].last_updated # NoTime
               /\ cache[k].last_updated = prov[k].putStamp

\* C3: serving and tearing down a request never stops the scheduler: once it
\* is running it stays running, so the interval trigger keeps firing.
C3_SchedulerKeepsRunning == [][running => running']_vars

\* C4: a step of a thread whose fetch yielded nothing to store (the fetch
\* raised or returned an empty result), in a pass or in a handler, leaves
\* every entry's value and fetchedAt as they were.
C4_NoClobberOnFailure ==
    [][\A a \in Actors :
         (pc'[a] # pc[a] /\ ~Truthy(data[a]) /\ ~Truthy(data'[a]))
             => cache' = cache]_vars

\* C4 witness: a request whose fetch failed has answered with an error and
\* the stale entry of its category is still populated.
C4_Witness ==
    \E r \in Requests :
        /\ pc[r] = "teardown"
        /\ resp[r].code \in { 404, 500 }
        /\ cache[key[r]].data # NoData
        /\ cache[key[r]].last_updated # NoTime

\* C5: a put whose request time is older than the request time of the put
\* that last completed on the category is rejected: it leaves the entry as
\* that earlier put left it.
C5_OlderWriteRejected ==
    [][\A a \in Actors :
         ( /\ pc[a] = "fetch" /\ pc'[a] = "w_now"
           /\ ~Writing(key[a])
           /\ prov[key[a]].putNow # NoTime
           /\ now[a] < prov[key[a]].putNow )
             => cache'[key[a]] = cache[key[a]]]_vars

\* C6: is_cache_valid(k) is true exactly when k's fetchedAt is present and
\* now - fetchedAt < ttl, strictly; it is false when fetchedAt is absent.
C6_FreshnessLaw ==
    \A k \in Keys :
        is_cache_valid(k) <=>
            /\ cache[k].last_updated # NoTime
            /\ (clock - cache[k].last_updated) * TickSeconds < CACHE_TIMEOUT

\* C6 witness: an entry whose age is exactly the ttl, reported invalid.
C6_Witness ==
    \E k \in Keys :
        /\ cache[k].last_updated # NoTime
        /\ (clock - cache[k].last_updated) * TickSeconds = CACHE_TIMEOUT
        /\ ~is_cache_valid(k)

\* C7: what the cache holds for top_gainers and top_losers is the full
\* upstream list whatever limit the storing request carried, and a cached
\* read with limit N returns the first N items of that full list.
C7_LimitNeverCached ==
    /\ \A k \in Limited :
           cache[k].data # NoData =>
               cache[k].data = Upstream(VersionOf(cache[k].data))
    /\ \A r \in Requests :
           ( /\ pc[r] = "teardown" /\ resp[r].cached
             /\ key[r] \in Limited /\ len(resp[r].data) > 0 )
               => resp[r].data =
                      Slice(Upstream(VersionOf(resp[r].data)), limit[r])

\* C8: a pass in which a fetch raised still invokes the fetch of every
\* category, and every category whose fetch succeeded has been stored.
C8_FailureIsolation ==
    \A u \in Updaters :
        (pc[u] = "pass_end" /\ raised[u] # {}) =>
            /\ tried[u] = Keys
            /\ fetched[u] \subseteq stored[u]
            /\ \A k \in stored[u] : cache[k].data # NoData

\* C8 witness: a pass has ended in which one category raised and a later
\* category was stored.
C8_Witness ==
    \E u \in Updaters :
        /\ pc[u] = "pass_end"
        /\ \E k \in raised[u], j \in stored[u] : Pos(j) > Pos(k)

\* A read of request thread r that finds the entry fresh: it takes the
\* cached branch, calls no fetch function, and its response is cached:true
\* with the data `expected` (as read from the entry) and the entry's
\* fetchedAt.
CachedReadStep(r, expected) ==
    /\ (pc[r] = "idle" /\ pc'[r] # "idle" /\ Fresh(key'[r]))
           => pc'[r] = "hit_data" /\ calls'[r] = 0
    /\ (pc[r] = "hit_data" /\ pc'[r] # "hit_data")
           => data'[r] = expected /\ calls'[r] = 0
    /\ (pc[r] = "hit_stamp" /\ pc'[r] = "hit_count")
           => ts'[r] = cache[key[r]].last_updated /\ calls'[r] = 0
    /\ (pc[r] \in { "hit_stamp", "hit_count" } /\ pc'[r] = "teardown")
           => /\ resp'[r].code = 200
              /\ resp'[r].cached
              /\ resp'[r].data = data[r]
              /\ resp'[r].last_updated.t =
                     IF pc[r] = "hit_stamp" THEN cache[key[r]].last_updated
                                            ELSE ts[r]
              /\ calls'[r] = 0

\* C9 as stated: a read of a populated, fresh entry calls no fetch function
\* and answers cached:true with data equal to the entry's value and
\* lastUpdated equal to the entry's fetchedAt, for every cached category.
C9_AsStated ==
    [][\A r \in Requests : CachedReadStep(r, cache[key[r]].data)]_vars

\* C9 amended: the same, where for top_gainers and top_losers the data is
\* the first `limit` items of the entry's value ( value[:limit] ).
C9_CachedRead ==
    [][\A r \in Requests :
         CachedReadStep(r, IF key[r] \in Limited
                           THEN Slice(cache[key[r]].data, limit[r])
                           ELSE cache[key[r]].data)]_vars

\* C9 witness: a cached read of a limited category has answered with fewer
\* items than the entry holds.
C9_Witness ==
    \E r \in Requests :
        /\ pc[r] = "teardown"
        /\ resp[r].cached
        /\ key[r] \in Limited
        /\ len(resp[r].data) < len(cache[key[r]].data)
        /\ calls[r] = 0

\* C10: a read that finds the entry empty or older than ttl calls the fetch
\* function exactly once and, when the fetch yields data, stores it (value
\* and timestamp) and answers cached:false.
C10_StaleRead ==
    /\ [](\A r \in Requests :
            /\ pc[r] \in { "w_now", "w_stamp", "respond" } => calls[r] = 1
            /\ (pc[r] = "teardown" /\ ~resp[r].cached) => calls[r] = 1)
    /\ [][\A r \in Requests :
            /\ (pc[r] = "idle" /\ pc'[r] # "idle" /\ ~Fresh(key'[r]))
                   => pc'[r] = "fetch" /\ calls'[r] = 0
            /\ (pc[r] = "fetch" /\ pc'[r] # "fetch" /\ Truthy(data'[r]))
                   => cache'[key[r]].data = data'[r] /\ pc'[r] = "w_now"
            /\ (pc[r] = "w_stamp" /\ pc'[r] # "w_stamp")
                   => /\ cache'[key[r]].last_updated = ts[r]
                      /\ pc'[r] = "respond"
            /\ (pc[r] = "respond" /\ pc'[r] # "respond" /\ Truthy(data[r]))
                   => resp'[r].code = 200 /\ ~resp'[r].cached]_vars

\* C10 witness: a read of a stale entry has fetched once, stored the result
\* and answered cached:false.
C10_Witness ==
    \E r \in Requests :
        /\ pc[r] = "teardown"
        /\ resp[r].code = 200
        /\ ~resp[r].cached
        /\ calls[r] = 1
        /\ now[r] > 0
        /\ cache[key[r]].data = data[r]
        /\ cache[key[r]].last_updated = ts[r]

\* The entry request r asked for is populated and was past its ttl at the
\* time r was handled.
StaleAt(r) ==
    /\ cache[key[r]].data # NoData
    /\ cache[key[r]].last_updated # NoTime
    /\ total_seconds(now[r] - cache[key[r]].last_updated) >= CACHE_TIMEOUT

\* C11: a read that finds the entry populated but past its ttl never takes
\* the cached branch, and when its fetch then yields nothing (the upstream is
\* unavailable; the read asked for at least one record) it answers with an
\* error, not with a success envelope
\* and not with the expired value.
C11_StaleNeverServed ==
    [][\A r \in Requests :
         /\ (pc[r] = "idle" /\ pc'[r] # "idle" /\ StaleAt(r)')
                => pc'[r] = "fetch"
         /\ ( /\ pc[r] \in { "fetch", "respond" } /\ pc'[r] = "teardown"
              /\ StaleAt(r) /\ limit[r] > 0 /\ ~Truthy(data'[r]) )
                => /\ ~resp'[r].ok
                   /\ resp'[r].code \in { 404, 500 }
                   /\ resp'[r].data = NoData]_vars

\* C12: a read (asking for at least one record) that took the fetch branch
\* and whose fetch yielded no data has answered with the error shape of its
\* category, never with a success envelope: 404 for stocks (500 when the
\* fetch raised), 500 for indices, top_gainers, top_losers, sectors and
\* merolagani_latest.
C12_ErrorShape ==
    \A r \in Requests :
        ( /\ pc[r] = "teardown" /\ calls[r] = 1 /\ limit[r] > 0
          /\ ~Truthy(resp[r].data) )
            => /\ ~resp[r].ok
               /\ resp[r].code \in
                      IF key[r] = "stocks" THEN { 404, 500 } ELSE { 500 }

\* C13: a read that fetched successfully and stored the result has answered
\* with a lastUpdated equal to the fetchedAt its own put stored in the entry.
C13_ResponseStamp ==
    \A r \in Requests :
        ( /\ pc[r] = "teardown" /\ resp[r].code = 200 /\ ~resp[r].cached
          /\ Truthy(data[r]) )
            => resp[r].last_updated.t = ts[r]

\* Request r found its category invalid, fetched once, and has stored what
\* it fetched (value and timestamp).
HasPut(r) ==
    /\ pc[r] \in { "respond", "teardown" }
    /\ calls[r] = 1
    /\ Truthy(data[r])
    /\ ts[r] # NoTime

\* C14: when two requests for the same stale category have run concurrently,
\* each has fetched once and stored its result, and the entry they leave is
\* the (value, fetchedAt) pair of one of them, the one that wrote last.
C14_LastWriteWins ==
    \A r, q \in Requests :
        ( /\ r # q /\ key[r] = key[q]
          /\ HasPut(r) /\ HasPut(q)
          /\ \A u \in Updaters : pc[u] \in { "idle", "serving" } )
            => \E w \in { r, q } :
                   /\ cache[key[w]].data = data[w]
                   /\ cache[key[w]].last_updated = ts[w]

\* The categories that precede k in cache_operations.
Before(k) == { cache_operations[i] : i \in 1..(Pos(k) - 1) }

\* C15: no request is handled before the startup pass has run to its end,
\* and every pass, startup or scheduled, invokes the fetch functions in the
\* order of cache_operations, each exactly once: when it is about to fetch
\* category k it has fetched exactly the categories before k, once each.
C15_PassOrder ==
    /\ nreq > 0 => pc["main"] = "serving"
    /\ \A u \in Updaters :
           /\ pc[u] = "fetch"
                  => tried[u] = Before(key[u])
           /\ pc[u] \in { "w_now", "w_stamp", "blocked" }
                  => tried[u] = Before(key[u]) \cup { key[u] }
           /\ pc[u] = "pass_end" => tried[u] = Keys
           /\ pc[u] \in { "fetch", "w_now", "w_stamp", "blocked", "pass_end" }
                  => calls[u] = Cardinality(tried[u])

\* C15 witness: after requests were served, a scheduled pass has reached its
\* end having fetched the six categories.
C15_Witness ==
    /\ nreq > 0
    /\ pc["sched"] = "pass_end"
    /\ calls["sched"] = Len(cache_operations)
    /\ key["sched"] = cache_operations[Len(cache_operations)]

\* C16: every refresh pass that starts eventually completes: a thread that
\* is inside update_cache eventually leaves it.
C16_PassCompletes ==
    \A u \in Updaters :
        (pc[u] = "fetch") ~> (pc[u] \in { "idle", "serving" })

\* C17: when the fetch function of a category raises on every call, then
\* after the passes and the reads of the run the entry of that category is
\* still empty and invalid, every read of it has answered with the error
\* response, and no exception has left update_cache or a handler.
C17_BrokenStaysEmpty ==
    /\ \A k \in broken :
           /\ cache[k].data = NoData
           /\ cache[k].last_updated = NoTime
           /\ ~is_cache_valid(k)
    /\ \A r \in Requests :
           (pc[r] = "teardown" /\ key[r] \in broken)
               => /\ ~resp[r].ok
                  /\ resp[r].code = 500
                  /\ resp[r].data = NoData
    /\ \A a \in Actors : pc[a] # "crashed"

\* C17 witness: after the startup pass and a scheduled pass, the second read
\* of the broken category has answered with the error response.
C17_Witness ==
    \E r \in Requests :
        /\ broken # {}
        /\ pc[r] = "teardown"
        /\ key[r] \in broken
        /\ resp[r].code = 500
        /\ nreq = 2
        /\ npass = 1
        /\ pc["sched"] = "idle"

\* C18: update_cache never raises to its caller: whatever the outcomes of
\* the fetches of a pass, no exception leaves update_cache, and a pass in
\* which fetches raised is still in its loop or at its normal end.
C18_NeverRaises ==
    \A u \in Updaters :
        /\ pc[u] # "crashed"
        /\ raised[u] # {}
               => pc[u] \in { "fetch", "w_now", "w_stamp", "blocked",
                              "pass_end" }
        /\ pc[u] = "pass_end"
               => tried[u] = Keys /\ raised[u] \cap fetched[u] = {}

\* C18 witness: a scheduled pass has reached its normal end after fetches
\* that raised, fetches that returned nothing and fetches that succeeded.
C18_Witness ==
    /\ pc["sched"] = "pass_end"
    /\ Cardinality(raised["sched"]) >= 2
    /\ fetched["sched"] # {}
    /\ tried["sched"] \ (raised["sched"] \cup fetched["sched"]) # {}

\* A structured response: the success envelope of the category (with its
\* timestamp format), or an error body with status 404 or 500.
Structured(k, rsp) ==
    \/ /\ rsp.code = 200 /\ rsp.ok
       /\ rsp.last_updated.fmt = Format(k, 0).fmt
       /\ (k = "stocks") <=> (rsp.count >= 0)
    \/ /\ rsp.code \in { 404, 500 } /\ ~rsp.ok
       /\ rsp.data = NoData

\* C19: no exception leaves a read handler, and every handler that returns,
\* on the cached branch or on the fetch branch and whatever the fetch did
\* (data, empty result, None, exception), returns a structured response.
C19_StructuredResponse ==
    \A r \in Requests :
        /\ pc[r] # "crashed"
        /\ pc[r] = "teardown" => Structured(key[r], resp[r])

\* C19 witness: one request has answered from the cache and another, on the
\* fetch branch, has turned the exception of its fetch into a 500 body.
C19_Witness ==
    \E r, q \in Requests :
        /\ pc[r] = "teardown" /\ resp[r].cached /\ calls[r] = 0
        /\ pc[q] = "teardown" /\ resp[q].code = 500 /\ calls[q] = 1

\* The payload is the six-section dict with every section empty.
IsSkeleton(v) == \E i \in DOMAIN v.items : v.items[i][2] = 0

\* C20: a fetch whose payload is malformed counts as a failed fetch: its
\* result is not stored, so an entry that holds market data is never
\* replaced by a payload with nothing recognisable in it, neither by a pass
\* nor by a read.
C20_MalformedNotStored ==
    [][\A k \in Keys :
         (cache[k].data # NoData /\ ~IsSkeleton(cache[k].data))
             => ~IsSkeleton(cache'[k].data)]_vars

\* C21: a freshness query for a key outside the fixed category set fails
\* fast with an InvalidKey error: it never returns a normal result.
C21_UnknownKeyFailsFast ==
    ~( /\ fnArg.fn = "is_cache_valid"
       /\ fnArg.cache_key \notin Keys
       /\ fnOut.returned )

\* C22: a request for a single-item category (stock by symbol, historical,
\* market depth) with a symbol performs one fresh fetch, goes through no
\* freshness check, and leaves every cache entry unchanged.
C22_SingleItemFetches ==
    [][ \A r \in Requests :
          ( /\ pc[r] = "idle"
            /\ pc'[r] # "idle"
            /\ key'[r] \in SingleItem
            /\ ~Blank(args'[r].symbol) )
          => /\ calls'[r] = 1
             /\ pc'[r] \in { "teardown", "blocked" }
             /\ cache' = cache ]_vars

\* C23: an uncached endpoint whose upstream has data for the request
\* returns the success envelope carrying that data; it returns an error
\* only when the upstream has none.
C23_UncachedSuccess ==
    \A r \in Requests :
        ( /\ pc[r] = "teardown"
          /\ key[r] \in Endpoints
          /\ ~Blank(args[r].symbol) )
        => /\ args[r].upstream = "ok" =>
                /\ resp[r].ok
                /\ resp[r].data = ServiceReturn(key[r], ver[r], "ok")
           /\ ~resp[r].ok => args[r].upstream # "ok"

\* An entry is empty: no value and no timestamp.
Empty(k) == cache[k].data = NoData /\ cache[k].last_updated = NoTime

\* C24: every entry is empty at start; a value is written only by a thread
\* whose fetch of that category has just returned a non-empty result, a
\* timestamp only by a thread that holds such a result; and a value or a
\* timestamp, once present, is never absent again.
C24_PopulatedForGood ==
    /\ \A k \in Keys : Empty(k)
    /\ [][ \A k \in Keys :
             /\ cache[k].data # NoData => cache'[k].data # NoData
             /\ cache[k].last_updated # NoTime
                    => cache'[k].last_updated # NoTime
             /\ cache'[k].data # cache[k].data
                    => \E a \in Actors :
                          /\ key[a] = k
                          /\ calls'[a] = calls[a] + 1
                          /\ Truthy(data'[a])
                          /\ cache'[k].data = data'[a]
             /\ cache'[k].last_updated # cache[k].last_updated
                    => \E a \in Actors :
                          /\ key[a] = k
                          /\ pc[a] = "w_stamp"
                          /\ Truthy(data[a]) ]_vars

\* A populated entry whose category a pass has fetched in vain.
C24_Witness ==
    \E u \in Updaters, k \in Keys :
        /\ k \in tried[u]
        /\ k \notin fetched[u]
        /\ cache[k].data # NoData
        /\ cache[k].last_updated # NoTime

\* C25: a put to one category, by a pass or by a request, leaves the value
\* and the timestamp of every other category unchanged: a step that changes
\* an entry is a write of a thread working on that category, and every
\* other entry is as before.
C25_OtherEntriesUntouched ==
    [][ \A k \in Keys :
          cache'[k] # cache[k]
          => /\ \E a \in Actors :
                  /\ key[a] = k
                  /\ pc[a] \in { "fetch", "w_stamp" }
                  /\ pc'[a] # pc[a]
             /\ \A j \in Keys \ { k } : cache'[j] = cache[j] ]_vars

\* A request has put category k while the other entries, populated by the
\* startup pass, still hold what that pass wrote.
C25_Witness ==
    \E r \in Requests :
        /\ pc[r] = "respond"
        /\ cache[key[r]].data = data[r]
        /\ cache[key[r]].last_updated = ts[r]
        /\ \A j \in Keys \ { key[r] } :
              /\ cache[j].data = FetchResult(j, DefaultLimit, << "main", 1 >>)
              /\ cache[j].last_updated = 0

\* C26: the set of cache keys is the same in every reachable state, the six
\* categories, each entry holding a value and a timestamp: no pass and no
\* request adds or removes a key.
C26_KeysFixed ==
    /\ DOMAIN cache = Keys
    /\ \A k \in DOMAIN cache : DOMAIN cache[k] = { "data", "last_updated" }

\* A scheduled pass has put an entry and a request has put one: the keys
\* are still the six categories.
C26_Witness ==
    /\ DOMAIN cache = Keys
    /\ \E k \in Keys : /\ cache[k].data # NoData
                       /\ VersionOf(cache[k].data)[1] = "sched"
    /\ \E k \in Keys : /\ cache[k].data # NoData
                       /\ VersionOf(cache[k].data)[1] = "req"

\* C27: a cached:true response is a snapshot of one put: its data and its
\* last_updated are the value and the timestamp that one and the same put
\* stored, and its count is the length of that value, also when a write of
\* a pass to the category falls between the handler's reads.
C27_SnapshotOfOnePut ==
    \A r \in Requests :
        ( /\ pc[r] = "teardown"
          /\ resp[r].ok
          /\ resp[r].cached
          /\ Truthy(resp[r].data) )
        => /\ << VersionOf(resp[r].data), resp[r].last_updated.t >>
                  \in prov[key[r]].puts
           /\ key[r] = "stocks" => resp[r].count = len(resp[r].data)

\* C28: for every category the stored timestamp never decreases, whatever
\* the order in which passes and requests write (the clock itself never
\* goes back).
C28_StampNeverDecreases ==
    [][ /\ clock' >= clock
        /\ \A k \in Keys :
              cache[k].last_updated # NoTime
              => cache'[k].last_updated >= cache[k].last_updated ]_vars

\* C29: for every weekday and every minute of the day in Nepal time, the
\* answer get_market_status gives from the clock has isOpen exactly when
\* utils.is_market_open holds, that is from Sunday to Thursday (Python
\* weekdays 6, 0, 1, 2, 3) from 11:00 inclusive to 15:00 exclusive.
C29_SameMarketHours ==
    ( fnArg.fn = "market_hours" /\ fnOut.returned )
    => /\ fnOut.bool = is_market_open(fnArg.weekday, fnArg.minute)
       /\ fnOut.bool = ( /\ fnArg.weekday \in { 6, 0, 1, 2, 3 }
                         /\ fnArg.minute >= 11 * 60
                         /\ fnArg.minute < 15 * 60 )

\* C30: get_indices returns a list, possibly empty, and never None, for
\* every combination of outcomes of its two sources.
C30_IndicesNeverNone ==
    ( fnArg.fn = "get_indices" /\ fnOut.returned )
    => /\ ~fnOut.raised
       /\ ~fnOut.payload.isNone

====
